---- MODULE Spec2Model ----
(***************************************************************************)
(* The Athlete resource handler of workout_api (atleta/controller.py) as   *)
(* a state machine.  Every handler is cut at its awaits: each action is    *)
(* the code between two database round trips, and concurrent requests      *)
(* interleave at these points.  The relational store, the request-scoped   *)
(* session and the pydantic schemas are collaborators whose code is not    *)
(* part of the handler; they are modelled from their contract.             *)
(*                                                                         *)
(* The fields of a request body are read-only inputs.  The model draws     *)
(* each of them at the step that first reads it, which gives the same      *)
(* behaviours as drawing them on arrival and keeps an in-flight request    *)
(* small.  `peso` stands for the scalar attributes peso, altura and sexo,  *)
(* which the handler never tells apart; `nome` is the attribute with two   *)
(* values, and `cpf` the one under the unique constraint.                  *)
(***************************************************************************)
EXTENDS Integers, Sequences, FiniteSets, TLC

VARIABLES atletas, req, nextId, deleted, event, scenario

vars == <<atletas, req, nextId, deleted, event, scenario>>

(* ------------------------------ bounds -------------------------------- *)

\* uuid4() draws in one run: the number of creates that reach the insert.
MaxIds == 2

(* ------------------------- program constants -------------------------- *)

HTTP_200_OK == 200
HTTP_201_CREATED == 201
HTTP_204_NO_CONTENT == 204
HTTP_303_SEE_OTHER == 303
HTTP_400_BAD_REQUEST == 400
HTTP_404_NOT_FOUND == 404
HTTP_500_INTERNAL_SERVER_ERROR == 500
DefaultLimit == 10
DefaultOffset == 0

(* ------------------------------ domains ------------------------------- *)

\* Python's None for an optional string, and for an optional number.
None == "<None>"
NoPeso == 0

Reqs == {"r1", "r2"}
Ids == 1..MaxIds
Nomes == {"Ana", "Bia"}
Cpfs == {"111", "222"}
Pesos == {60}
Campos == {"nome", "cpf", "peso"}

\* The Category and Training Center tables: rows that exist before any
\* athlete request runs.
Categorias == {[pk_id |-> 1, nome |-> "CrossFit"]}
Centros == {[pk_id |-> 2, nome |-> "Box1"]}
NoRef == [pk_id |-> 0, nome |-> None]

\* Names a request may carry: those of the rows, and one that matches none.
CategoriaNomes == {c.nome : c \in Categorias} \cup {"Yoga"}
CentroNomes == {c.nome : c \in Centros} \cup {"Box9"}

\* limit and offset: the defaults, an empty page, and a page of one row
\* that starts at the first row or after it.
Limits == {0, 1, DefaultLimit}
Offsets == {DefaultOffset, 1}
\* A string query parameter: absent, empty, or a value.
NomeFilters == {None, ""} \cup Nomes
CpfFilters == {None, ""} \cup Cpfs

Min(a, b) == IF a <= b THEN a ELSE b

(* ------------------------------ schemas ------------------------------- *)

\* AtletaUpdate: optional fields, and pydantic's record of which were set.
AtletaUpdates ==
  {[nome |-> (IF "nome" \in s THEN n ELSE None),
    cpf |-> (IF "cpf" \in s THEN c ELSE None),
    peso |-> (IF "peso" \in s THEN p ELSE NoPeso),
    fields_set |-> s] : s \in SUBSET Campos, n \in Nomes, c \in Cpfs, p \in Pesos}

\* Faulty variant: model_dump() without exclude_unset gives every field.
model_dump_all(atleta_up) == Campos

\* model_dump(exclude_unset=True): the keys of the fields that were set.
model_dump_exclude_unset(atleta_up) == atleta_up.fields_set

CategoriaNome(pk) == (CHOOSE c \in Categorias : c.pk_id = pk).nome
CentroNome(pk) == (CHOOSE c \in Centros : c.pk_id = pk).nome

\* AtletaOut as serialised from a row: the relationships give the names.
AtletaOut(row) ==
  [id |-> row.id, created_at |-> row.created_at, nome |-> row.nome,
   cpf |-> row.cpf, peso |-> row.peso,
   categoria |-> CategoriaNome(row.categoria_id),
   centro_treinamento |-> CentroNome(row.centro_treinamento_id)]

(* ------------------------------- store -------------------------------- *)

\* select(...).filter_by(nome=nome): the rows of a table with this name.
FilterByNome(table, nome) == {x \in table : x.nome = nome}
\* select(AtletaModel).filter_by(id=id)
FilterById(table, id) == {x \in table : x.id = id}
\* .scalars().first(): truthy exactly when a row came back.
First(rows) == IF rows = {} THEN NoRef ELSE CHOOSE x \in rows : TRUE

\* Faulty variant: the check is missing.
Falsy_Never(row) == FALSE

\* `if not categoria`, `if not atleta`: no row came back.
Falsy(row) == row = NoRef

\* Faulty variant: the table has no unique constraint.
UniqueViolation_None(table, row) == FALSE

\* The unique constraint on cpf, checked when a flush writes `row`.
UniqueViolation(table, row) == \E x \in table : x.id # row.id /\ x.cpf = row.cpf

\* Rows in the store's default order: the order of insertion.
RECURSIVE InOrder(_)
InOrder(rows) ==
  IF rows = {} THEN <<>>
  ELSE LET m == CHOOSE x \in rows : \A y \in rows : x.id <= y.id
       IN <<m>> \o InOrder(rows \ {m})

\* query.limit(limit).offset(offset) on an ordered result.
LimitOffset(seq, limit, offset) == SubSeq(seq, offset + 1, Min(Len(seq), offset + limit))

(* ------------------------------- events ------------------------------- *)

\* What a request has read of its body so far.
NoIn == [nome |-> None, cpf |-> None, peso |-> NoPeso, categoria |-> None,
         centro_treinamento |-> None, fields_set |-> {}]

\* The step just taken: the handler and the step in it, the inputs the step
\* read, the exception the store raised in it, and the HTTP response it
\* sent (status 0: none yet, the handler goes on).  `wrote`: the request's
\* session had committed a change of the athlete table before this step.
Ev(op, step, status, exc, id, in, wrote, body) ==
  [op |-> op, step |-> step, status |-> status, exc |-> exc, id |-> id,
   in |-> in, wrote |-> wrote, body |-> body]

NoEvent == Ev("none", "none", 0, "", 0, NoIn, FALSE, <<>>)

Detail(msg, arg) == <<[detail |-> msg, arg |-> arg]>>

(* ------------------------------ requests ------------------------------ *)

Idle == [pc |-> "idle", id |-> 0, categoria |-> NoRef, centro_treinamento |-> NoRef,
         wrote |-> FALSE, status |-> 0, cpf |-> None, exc |-> ""]

\* The handler returns or raises: the session is closed, which rolls back
\* what it had not committed, and the connection is free for the next
\* request.  In the race scenario a connection serves one request and keeps
\* its outcome: the status sent, the cpf the request carried and the
\* exception its commit raised.
Finish(r, status, cpf, exc) ==
  req' = [req EXCEPT ![r] = IF scenario = "race"
                            THEN [Idle EXCEPT !.pc = "done", !.status = status,
                                              !.cpf = cpf, !.exc = exc]
                            ELSE Idle]

Init ==
  /\ atletas = {}
  /\ req = [r \in Reqs |-> Idle]
  /\ nextId = 1
  /\ deleted = {}
  /\ event = NoEvent
  /\ scenario = "open"

(* -------------------------------- post -------------------------------- *)

\* Lines 27-38: the category lookup and its 400.
PostLookupCategoria(r) ==
  /\ req[r].pc = "idle"
  /\ \E categoria_nome \in CategoriaNomes :
       LET categoria == First(FilterByNome(Categorias, categoria_nome))
           in == [NoIn EXCEPT !.categoria = categoria_nome]
       IN IF Falsy(categoria)
          THEN /\ event' = Ev("post", "categoria", HTTP_400_BAD_REQUEST, "", 0, in, FALSE,
                              Detail("A categoria nao foi encontrada", categoria_nome))
               /\ Finish(r, HTTP_400_BAD_REQUEST, None, "")
          ELSE /\ event' = Ev("post", "categoria", 0, "", 0, in, FALSE, <<>>)
               /\ req' = [req EXCEPT ![r] = [Idle EXCEPT !.pc = "post_centro",
                                                        !.categoria = categoria]]
  /\ UNCHANGED <<atletas, nextId, deleted, scenario>>

\* Lines 40-48: the training-center lookup and its 400.
PostLookupCentro(r) ==
  /\ req[r].pc = "post_centro"
  /\ \E centro_treinamento_nome \in CentroNomes :
       LET centro_treinamento == First(FilterByNome(Centros, centro_treinamento_nome))
           in == [NoIn EXCEPT !.categoria = req[r].categoria.nome,
                              !.centro_treinamento = centro_treinamento_nome]
       IN IF Falsy(centro_treinamento)
          THEN /\ event' = Ev("post", "centro", HTTP_400_BAD_REQUEST, "", 0, in, FALSE,
                              Detail("O centro de treinamento nao foi encontrado",
                                     centro_treinamento_nome))
               /\ Finish(r, HTTP_400_BAD_REQUEST, None, "")
          ELSE /\ event' = Ev("post", "centro", 0, "", 0, in, FALSE, <<>>)
               /\ req' = [req EXCEPT ![r].pc = "post_commit",
                                     ![r].centro_treinamento = centro_treinamento]
  /\ UNCHANGED <<atletas, nextId, deleted, scenario>>

\* Faulty variant: the id is a constant, not drawn per request.
NewAtletaOut_ConstantId(atleta_in) ==
  [id |-> 1, created_at |-> nextId, nome |-> atleta_in.nome, cpf |-> atleta_in.cpf,
   peso |-> atleta_in.peso, categoria |-> atleta_in.categoria,
   centro_treinamento |-> atleta_in.centro_treinamento]

\* Line 50: AtletaOut(id=uuid4(), created_at=datetime.utcnow(), **atleta_in).
\* uuid4() is a value never drawn before; the clock is read with it.
NewAtletaOut(atleta_in) ==
  [id |-> nextId, created_at |-> nextId, nome |-> atleta_in.nome, cpf |-> atleta_in.cpf,
   peso |-> atleta_in.peso, categoria |-> atleta_in.categoria,
   centro_treinamento |-> atleta_in.centro_treinamento]

\* Faulty variant: line 54 is missing, the center key stays unset.
AtletaModel_NoCentroKey(atleta_out, categoria, centro_treinamento) ==
  [id |-> atleta_out.id, created_at |-> atleta_out.created_at, nome |-> atleta_out.nome,
   cpf |-> atleta_out.cpf, peso |-> atleta_out.peso,
   categoria_id |-> categoria.pk_id,
   centro_treinamento_id |-> 0]

\* Lines 51-54: the row, without the two names and with the two keys.
AtletaModel(atleta_out, categoria, centro_treinamento) ==
  [id |-> atleta_out.id, created_at |-> atleta_out.created_at, nome |-> atleta_out.nome,
   cpf |-> atleta_out.cpf, peso |-> atleta_out.peso,
   categoria_id |-> categoria.pk_id,
   centro_treinamento_id |-> centro_treinamento.pk_id]

\* The exception of add() and commit(), lines 56-57: the store may fail for
\* reasons of its own; otherwise the flush checks the unique constraint.
InsertException(table, row, fault) ==
  IF fault THEN "OperationalError"
  ELSE IF UniqueViolation(table, row) THEN "IntegrityError"
  ELSE ""

\* Faulty variant: `except Exception` comes first and catches everything.
PostStatus_GenericFirst(exc) ==
  IF exc # "" THEN HTTP_500_INTERNAL_SERVER_ERROR ELSE HTTP_201_CREATED

\* Lines 58-69: the status of the response, by the exception caught.
PostStatus(exc) ==
  IF exc = "IntegrityError" THEN HTTP_303_SEE_OTHER
  ELSE IF exc # "" THEN HTTP_500_INTERNAL_SERVER_ERROR
  ELSE HTTP_201_CREATED

\* Lines 49-69: build the athlete, insert, commit, answer.
PostCommit(r) ==
  /\ req[r].pc = "post_commit"
  /\ nextId <= MaxIds
  /\ \E nome \in Nomes, cpf \in Cpfs, peso \in Pesos, fault \in BOOLEAN :
       LET atleta_in == [nome |-> nome, cpf |-> cpf, peso |-> peso,
                         categoria |-> req[r].categoria.nome,
                         centro_treinamento |-> req[r].centro_treinamento.nome,
                         fields_set |-> Campos \cup {"categoria", "centro_treinamento"}]
           atleta_out == NewAtletaOut(atleta_in)
           atleta_model == AtletaModel(atleta_out, req[r].categoria,
                                       req[r].centro_treinamento)
           exc == InsertException(atletas, atleta_model, fault)
           status == PostStatus(exc)
       IN /\ atletas' = IF exc = "" THEN atletas \cup {atleta_model} ELSE atletas
          /\ event' = Ev("post", "commit", status, exc, atleta_out.id, atleta_in, FALSE,
                         IF status = HTTP_201_CREATED THEN <<atleta_out>>
                         ELSE IF status = HTTP_303_SEE_OTHER
                         THEN Detail("Ja existe um atleta cadastrado com o cpf", cpf)
                         ELSE Detail("Ocorreu um erro ao inserir os dados no banco", ""))
          /\ Finish(r, status, cpf, exc)
  /\ nextId' = nextId + 1
  /\ UNCHANGED <<deleted, scenario>>

(* ------------------------------- reads -------------------------------- *)

\* Lines 90-94 and 125-129: the summary of one athlete.
Summary(atleta) ==
  [nome |-> atleta.nome,
   centro_treinamento |-> CentroNome(atleta.centro_treinamento_id),
   categoria |-> CategoriaNome(atleta.categoria_id)]

\* Lines 88-95 and 123-130: the summaries, in the order of the rows.
Summaries(rows) == [i \in 1..Len(rows) |-> Summary(rows[i])]

\* Lines 83-97: the response of the list.
query_all(table, limit, offset) ==
  LET rows == LimitOffset(InOrder(table), limit, offset)
  IN [status |-> HTTP_200_OK, body |-> Summaries(rows)]

\* `if nome:` and `if cpf:`: None and the empty string are both falsy.
Truthy(s) == s # None /\ s # ""

\* Faulty variant: the two filters are alternatives.
Filtered_Or(table, nome, cpf) ==
  {x \in table : (Truthy(nome) /\ x.nome = nome) \/ (Truthy(cpf) /\ x.cpf = cpf)
                 \/ (~Truthy(nome) /\ ~Truthy(cpf))}

\* Lines 113-117: the filters the query carries.
Filtered(table, nome, cpf) ==
  {x \in table : (Truthy(nome) => x.nome = nome) /\ (Truthy(cpf) => x.cpf = cpf)}

\* Lines 113-138: the response of the search.
query_by_name_or_cpf(table, nome, cpf, limit, offset) ==
  LET rows == LimitOffset(InOrder(Filtered(table, nome, cpf)), limit, offset)
      atletas_response == Summaries(rows)
  IN IF atletas_response = <<>>
     THEN [status |-> HTTP_404_NOT_FOUND,
           body |-> Detail("Nenhum atleta encontrado com o criterio fornecido.", "")]
     ELSE [status |-> HTTP_200_OK, body |-> atletas_response]

\* Lines 152-162: the response of the fetch.
query_by_id(table, id) ==
  LET atleta == First(FilterById(table, id))
  IN IF Falsy(atleta)
     THEN [status |-> HTTP_404_NOT_FOUND, body |-> Detail("Atleta nao encontrado com o ID", "")]
     ELSE [status |-> HTTP_200_OK, body |-> <<AtletaOut(atleta)>>]

QueryAll ==
  /\ \E limit \in Limits, offset \in Offsets :
       LET res == query_all(atletas, limit, offset)
       IN event' = Ev("query_all", "query", res.status, "", 0, NoIn, FALSE, res.body)
  /\ UNCHANGED <<atletas, req, nextId, deleted, scenario>>

QueryByNameOrCpf ==
  /\ \E nome \in NomeFilters, cpf \in CpfFilters, limit \in Limits, offset \in Offsets :
       LET res == query_by_name_or_cpf(atletas, nome, cpf, limit, offset)
       IN event' = Ev("query_by_name_or_cpf", "query", res.status, "", 0,
                      [NoIn EXCEPT !.nome = nome, !.cpf = cpf], FALSE, res.body)
  /\ UNCHANGED <<atletas, req, nextId, deleted, scenario>>

QueryById ==
  /\ \E id \in Ids :
       LET res == query_by_id(atletas, id)
       IN event' = Ev("query_by_id", "query", res.status, "", id, NoIn, FALSE, res.body)
  /\ UNCHANGED <<atletas, req, nextId, deleted, scenario>>

(* ------------------------------- patch -------------------------------- *)

\* Lines 176-184: the select and its 404.
PatchSelect(r) ==
  /\ req[r].pc = "idle"
  /\ \E id \in Ids :
       LET atleta == First(FilterById(atletas, id))
       IN IF Falsy(atleta)
          THEN /\ event' = Ev("patch", "select", HTTP_404_NOT_FOUND, "", id, NoIn, FALSE,
                              Detail("Atleta nao encontrado com o ID", ""))
               /\ Finish(r, HTTP_404_NOT_FOUND, None, "")
          ELSE /\ event' = Ev("patch", "select", 0, "", id, NoIn, FALSE, <<>>)
               /\ req' = [req EXCEPT ![r] = [Idle EXCEPT !.pc = "patch_commit", !.id = id]]
  /\ UNCHANGED <<atletas, nextId, deleted, scenario>>

\* Lines 186-188: setattr of every key the body set.
ApplyUpdate(atleta, atleta_up) ==
  LET atleta_update == model_dump_exclude_unset(atleta_up)
  IN [k \in DOMAIN atleta |-> IF k \in atleta_update THEN atleta_up[k] ELSE atleta[k]]

\* The exception of commit(), line 190: the flush writes the row the
\* session holds; the row may be gone, or the new cpf may be taken.
UpdateException(table, id, new, atleta_up) ==
  IF FilterById(table, id) = {}
  THEN IF model_dump_exclude_unset(atleta_up) = {} THEN "" ELSE "StaleDataError"
  ELSE IF UniqueViolation(table, new) THEN "IntegrityError"
  ELSE ""

\* patch catches nothing: any exception leaves the handler and the
\* framework answers 500.
Unhandled(exc) == IF exc = "" THEN 0 ELSE HTTP_500_INTERNAL_SERVER_ERROR

\* Lines 186-190: apply the body to the loaded athlete and commit.
PatchCommit(r) ==
  /\ req[r].pc = "patch_commit"
  /\ \E atleta_up \in AtletaUpdates :
       LET id == req[r].id
           rows == FilterById(atletas, id)
           new == {ApplyUpdate(x, atleta_up) : x \in rows}
           exc == IF rows = {} THEN UpdateException(atletas, id, NoRef, atleta_up)
                  ELSE UpdateException(atletas, id, First(new), atleta_up)
           status == Unhandled(exc)
       IN /\ atletas' = IF exc = "" THEN (atletas \ rows) \cup new ELSE atletas
          /\ event' = Ev("patch", "commit", status, exc, id, atleta_up, FALSE,
                         IF status = 0 THEN <<>> ELSE Detail("Internal Server Error", ""))
          /\ IF exc = ""
             THEN req' = [req EXCEPT ![r].pc = "patch_refresh", ![r].wrote = (new # rows)]
             ELSE Finish(r, status, None, exc)
  /\ UNCHANGED <<nextId, deleted, scenario>>

\* Lines 191-193: re-read the athlete and answer; a row that is gone
\* cannot be refreshed.
PatchRefresh(r) ==
  /\ req[r].pc = "patch_refresh"
  /\ LET id == req[r].id
         atleta == First(FilterById(atletas, id))
         exc == IF Falsy(atleta) THEN "InvalidRequestError" ELSE ""
         status == IF exc = "" THEN HTTP_200_OK ELSE Unhandled(exc)
     IN /\ event' = Ev("patch", "refresh", status, exc, id, NoIn, req[r].wrote,
                       IF exc = "" THEN <<AtletaOut(atleta)>>
                       ELSE Detail("Internal Server Error", ""))
        /\ Finish(r, status, None, exc)
  /\ UNCHANGED <<atletas, nextId, deleted, scenario>>

(* ------------------------------- delete ------------------------------- *)

\* Lines 205-213: the select and its 404.
DeleteSelect(r) ==
  /\ req[r].pc = "idle"
  /\ \E id \in Ids :
       LET atleta == First(FilterById(atletas, id))
       IN IF Falsy(atleta)
          THEN /\ event' = Ev("delete", "select", HTTP_404_NOT_FOUND, "", id, NoIn, FALSE,
                              Detail("Atleta nao encontrado com o ID", ""))
               /\ Finish(r, HTTP_404_NOT_FOUND, None, "")
          ELSE /\ event' = Ev("delete", "select", 0, "", id, NoIn, FALSE, <<>>)
               /\ req' = [req EXCEPT ![r] = [Idle EXCEPT !.pc = "delete_commit", !.id = id]]
  /\ UNCHANGED <<atletas, nextId, deleted, scenario>>

\* Faulty variant: line 215 is missing, the commit has nothing to write.
DeleteCommit_NoDelete(r) ==
  /\ req[r].pc = "delete_commit"
  /\ LET id == req[r].id
     IN /\ deleted' = deleted \cup {id}
        /\ event' = Ev("delete", "commit", HTTP_204_NO_CONTENT, "", id, NoIn, FALSE, <<>>)
        /\ Finish(r, HTTP_204_NO_CONTENT, None, "")
  /\ UNCHANGED <<atletas, nextId, scenario>>

\* Lines 215-216: delete the loaded athlete and commit.  A row another
\* request deleted meanwhile matches no DELETE, which is no error.
DeleteCommit(r) ==
  /\ req[r].pc = "delete_commit"
  /\ LET id == req[r].id
     IN /\ atletas' = atletas \ FilterById(atletas, id)
        /\ deleted' = deleted \cup {id}
        /\ event' = Ev("delete", "commit", HTTP_204_NO_CONTENT, "", id, NoIn, FALSE, <<>>)
        /\ Finish(r, HTTP_204_NO_CONTENT, None, "")
  /\ UNCHANGED <<nextId, scenario>>

(* ---------------------------- specifications -------------------------- *)

\* Create, fetch, partial update and delete, on concurrent connections.
Next ==
  \/ \E r \in Reqs : PostLookupCategoria(r)
  \/ \E r \in Reqs : PostLookupCentro(r)
  \/ \E r \in Reqs : PostCommit(r)
  \/ QueryById
  \/ \E r \in Reqs : PatchSelect(r)
  \/ \E r \in Reqs : PatchCommit(r)
  \/ \E r \in Reqs : PatchRefresh(r)
  \/ \E r \in Reqs : DeleteSelect(r)
  \/ \E r \in Reqs : DeleteCommit(r)

Spec == Init /\ [][Next]_vars

\* List and search, over the tables that creates build.  The two read no
\* state but the athlete table and change none.
NextQuery ==
  \/ \E r \in Reqs : PostLookupCategoria(r)
  \/ \E r \in Reqs : PostLookupCentro(r)
  \/ \E r \in Reqs : PostCommit(r)
  \/ QueryAll
  \/ QueryByNameOrCpf

SpecQuery == Init /\ [][NextQuery]_vars

\* The race: every connection serves one create, and nothing else runs.
InitRace ==
  /\ atletas = {}
  /\ req = [r \in Reqs |-> Idle]
  /\ nextId = 1
  /\ deleted = {}
  /\ event = NoEvent
  /\ scenario = "race"

NextRace ==
  \/ \E r \in Reqs : PostLookupCategoria(r)
  \/ \E r \in Reqs : PostLookupCentro(r)
  \/ \E r \in Reqs : PostCommit(r)

SpecRace == InitRace /\ [][NextRace]_vars

(* ------------------------------- claims ------------------------------- *)

IdsOf(table) == {x.id : x \in table}
CpfsOf(table) == {x.cpf : x \in table}
WithCpf(table, cpf) == {x \in table : x.cpf = cpf}

\* The creates that are over, carried `cpf`, and whose store did not fail.
Raced(cpf) ==
  {r \in Reqs : req[r].pc = "done" /\ req[r].cpf = cpf /\ req[r].exc # "OperationalError"}

\* C1: of the concurrent creates that carry one cpf (category and center
\* found, the store not failing), in every interleaving of their lookups
\* and commits, exactly one is answered 201, every other one 303, and the
\* table holds exactly one row with that cpf.
C1_OneCreateWins ==
  \A cpf \in Cpfs :
    Raced(cpf) # {} =>
      /\ Cardinality({r \in Raced(cpf) : req[r].status = HTTP_201_CREATED}) = 1
      /\ \A r \in Raced(cpf) : req[r].status \in {HTTP_201_CREATED, HTTP_303_SEE_OTHER}
      /\ Cardinality(WithCpf(atletas, cpf)) = 1

\* Two creates with one cpf are over: one 201, one 303.
C1_Witness ==
  \E r1, r2 \in Reqs :
    /\ r1 # r2
    /\ req[r1].pc = "done" /\ req[r2].pc = "done"
    /\ req[r1].cpf = req[r2].cpf
    /\ req[r1].status = HTTP_201_CREATED
    /\ req[r2].status = HTTP_303_SEE_OTHER

\* C2: no two rows of the athlete table have the same cpf, whatever
\* creates, partial updates and deletes ran and however they interleaved.
C2_CpfUnique == \A x, y \in atletas : x.cpf = y.cpf => x = y

\* A partial update that set a cpf another athlete has was refused.
C2_Witness ==
  /\ Cardinality(atletas) = 2
  /\ event.op = "patch" /\ event.step = "commit" /\ event.exc = "IntegrityError"

\* C3: every athlete row refers to a row of the Category table and to a
\* row of the Training Center table.
C3_ReferencesExist ==
  \A x \in atletas :
    /\ x.categoria_id \in {c.pk_id : c \in Categorias}
    /\ x.centro_treinamento_id \in {c.pk_id : c \in Centros}

\* A create was answered 201 and its row is in the table, after a partial
\* update and a delete ran.
C3_Witness ==
  /\ event.op = "post" /\ event.status = HTTP_201_CREATED
  /\ event.id \in IdsOf(atletas)
  /\ deleted # {}

\* C4: a create whose category name matches no Category row is answered
\* 400 with a detail that names the category; one whose category exists
\* and whose center name matches no Training Center row is answered 400
\* with a detail that names the center.  In both cases nothing is built,
\* inserted or committed: no id is drawn, no request goes on to a later
\* step, and the athlete table is unchanged, whatever rows (and so
\* whatever cpfs) it holds.
C4_MissingReferenceIs400 ==
  [][LET e == event'
     IN /\ (e.op = "post" /\ e.step = "categoria"
              /\ (\A c \in Categorias : c.nome # e.in.categoria))
           => /\ e.status = HTTP_400_BAD_REQUEST
              /\ Len(e.body) = 1 /\ e.body[1].arg = e.in.categoria
              /\ atletas' = atletas /\ nextId' = nextId
              /\ \A r \in Reqs :
                   req'[r].pc \in {"post_centro", "post_commit"} => req'[r] = req[r]
        /\ (e.op = "post" /\ e.step = "centro"
              /\ (\E c \in Categorias : c.nome = e.in.categoria)
              /\ (\A c \in Centros : c.nome # e.in.centro_treinamento))
           => /\ e.status = HTTP_400_BAD_REQUEST
              /\ Len(e.body) = 1 /\ e.body[1].arg = e.in.centro_treinamento
              /\ atletas' = atletas /\ nextId' = nextId
              /\ \A r \in Reqs : req'[r].pc = "post_commit" => req'[r] = req[r]
    ]_vars

\* A create with a missing center was refused while every cpf was taken.
C4_Witness ==
  /\ event.op = "post" /\ event.step = "centro"
  /\ event.status = HTTP_400_BAD_REQUEST
  /\ CpfsOf(atletas) = Cpfs

Fixed == {"id", "created_at", "categoria_id", "centro_treinamento_id"}

\* C6: a partial update that commits changes, in the athlete it loaded,
\* exactly the fields its body set, each to the value given, and leaves
\* that athlete's other fields and every other row as they were; no step
\* of any request changes the id, created_at, categoria_id or
\* centro_treinamento_id of a row that stays in the table; the update's
\* answer, and a fetch by id right after the commit, show the row of the
\* table, with the values the body set.
C6_PatchFrame ==
  [][LET e == event'
     IN /\ (e.op = "patch" /\ e.step = "commit" /\ e.status = 0)
           => /\ \A x \in atletas :
                   IF x.id # e.id THEN x \in atletas'
                   ELSE \E y \in atletas' :
                          /\ \A k \in Fixed : y[k] = x[k]
                          /\ \A k \in Campos :
                               y[k] = IF k \in e.in.fields_set THEN e.in[k] ELSE x[k]
              /\ IdsOf(atletas') = IdsOf(atletas)
        /\ \A x \in atletas, y \in atletas' :
             x.id = y.id => \A k \in Fixed : y[k] = x[k]
        /\ (e.op = "patch" /\ e.step = "refresh" /\ e.status = HTTP_200_OK)
           => \E y \in atletas' :
                /\ y.id = e.id /\ Len(e.body) = 1
                /\ \A k \in Campos \cup {"id", "created_at"} : e.body[1][k] = y[k]
        /\ (/\ event.op = "patch" /\ event.step = "commit" /\ event.status = 0
            /\ event.id \in IdsOf(atletas)
            /\ e.op = "query_by_id" /\ e.id = event.id)
           => /\ e.status = HTTP_200_OK
              /\ \A k \in event.in.fields_set : e.body[1][k] = event.in[k]
              /\ \E y \in atletas :
                   \A k \in Campos \cup {"id", "created_at"} : e.body[1][k] = y[k]
    ]_vars

\* A partial update that set only nome committed a change, next to a row
\* it did not load.
C6_Witness ==
  /\ event.op = "patch" /\ event.step = "commit" /\ event.status = 0
  /\ event.in.fields_set = {"nome"}
  /\ Cardinality(atletas) = 2
  /\ \E r \in Reqs : req[r].pc = "patch_refresh" /\ req[r].id = event.id /\ req[r].wrote

\* C7: a delete that commits is answered 204 and removes the row with its
\* id and no other; from then on that id is not in the table, and every
\* fetch, partial update and delete that selects it afterwards is
\* answered 404; a delete whose id resolves to no row is answered 404 and
\* changes nothing.
C7_DeleteThenNotFound ==
  [][LET e == event'
     IN /\ (e.op = "delete" /\ e.step = "commit")
           => /\ e.status = HTTP_204_NO_CONTENT
              /\ atletas' = {x \in atletas : x.id # e.id}
              /\ e.id \in deleted'
        /\ deleted \subseteq deleted'
        /\ deleted' \cap IdsOf(atletas') = {}
        /\ (/\ e.op \in {"query_by_id", "patch", "delete"}
            /\ e.step \in {"query", "select"}
            /\ e.id \in deleted)
           => e.status = HTTP_404_NOT_FOUND
        /\ (e.op = "delete" /\ e.step = "select" /\ e.id \notin IdsOf(atletas))
           => /\ e.status = HTTP_404_NOT_FOUND
              /\ atletas' = atletas
              /\ \A r \in Reqs : req'[r].pc = "delete_commit" => req'[r] = req[r]
    ]_vars

\* A fetch of a deleted id was answered 404 while another row remained.
C7_Witness ==
  /\ event.op = "query_by_id" /\ event.id \in deleted
  /\ event.status = HTTP_404_NOT_FOUND
  /\ atletas # {}

\* C8: a create whose category and center exist, whose cpf no row has
\* when it commits and whose store does not fail is answered 201 with an
\* id that no earlier create returned; the row is in the table with the
\* values submitted, and a fetch by that id right after the create is
\* answered 200 with the same id, created_at, nome, cpf, peso, category
\* and center as the create's answer.
C8_CreateThenFetch ==
  [][LET e == event'
     IN /\ (/\ e.op = "post" /\ e.step = "commit"
            /\ e.exc # "OperationalError"
            /\ e.in.cpf \notin CpfsOf(atletas))
           => /\ e.status = HTTP_201_CREATED
              /\ e.id \notin IdsOf(atletas) \cup deleted
              /\ Len(e.body) = 1 /\ e.body[1].id = e.id
              /\ \A k \in Campos \cup {"categoria", "centro_treinamento"} :
                   e.body[1][k] = e.in[k]
              /\ query_by_id(atletas', e.id) = [status |-> HTTP_200_OK, body |-> e.body]
        /\ (/\ event.op = "post" /\ event.status = HTTP_201_CREATED
            /\ e.op = "query_by_id" /\ e.id = event.id)
           => /\ e.status = HTTP_200_OK
              /\ e.body = event.body
    ]_vars

\* A second create, with a cpf of its own, was answered 201.
C8_Witness ==
  /\ event.op = "post" /\ event.status = HTTP_201_CREATED
  /\ Cardinality(atletas) = 2
  /\ event.id \in IdsOf(atletas)

\* C9 as stated: a create, partial update or delete that is answered with
\* an error has committed no change of the athlete table.
C9_ErrorMeansRolledBack ==
  (/\ event.op \in {"post", "patch", "delete"}
   /\ event.status \in {HTTP_303_SEE_OTHER, HTTP_400_BAD_REQUEST, HTTP_404_NOT_FOUND,
                        HTTP_500_INTERNAL_SERVER_ERROR})
  => ~event.wrote

\* C10 as stated: a violation of the unique constraint on cpf is answered
\* with the 303 of a duplicate key, in a create and in a partial update.
C10_UniqueViolationIs303 ==
  event.exc = "IntegrityError" => event.status = HTTP_303_SEE_OTHER

====
